---- MODULE Spec2Model ----
(***************************************************************************)
(* Shopify connector of erpnext_integrations (shopify_connection.py).      *)
(*                                                                         *)
(* The database is a set of documents.  Every worker (a webhook job) reads *)
(* the committed documents overlaid with its own uncommitted writes, and   *)
(* frappe.db.commit() / frappe.db.rollback() publish or drop those writes. *)
(* 0 stands for None wherever a name, an id or a key is absent.            *)
(***************************************************************************)
EXTENDS Integers, Sequences, FiniteSets, TLC

VARIABLES settings, shop, inbox, tax, overlap, items, customers, db, pending,
          pc, call, prev, so, si, idx, budget

vars == <<settings, shop, inbox, tax, overlap, items, customers, db, pending,
          pc, call, prev, so, si, idx, budget>>

\* the Shopify Settings, the storefront's order, the payloads that may be
\* delivered, and the tax composition under test: no handler writes them
env == <<settings, shop, inbox, tax>>

\* ---- bounds -------------------------------------------------------------
MaxCalls == 2          \* webhook deliveries handled one after the other
MaxReplays == 3        \* deliveries of one and the same payload
MaxConcCalls == 1      \* deliveries per worker when two workers overlap
MaxFulfillments == 2   \* fulfillments carried by one order payload
MaxShipping == 2       \* shipping charges of one order
MaxTaxLines == 2       \* nested tax lines of one shipping charge

Workers == {1, 2}

\* ---- documents ----------------------------------------------------------
Doc(doctype, name, docstatus, oid, fid, against, ret, billed) ==
  [doctype |-> doctype, name |-> name, docstatus |-> docstatus,
   shopify_order_id |-> oid, shopify_fulfillment_id |-> fid,
   against |-> against, is_return |-> ret, per_billed |-> billed]

NoDoc == Doc("None", 0, 0, 0, 0, 0, FALSE, 0)

SameDoc(a, b) == a.doctype = b.doctype /\ a.name = b.name

\* the documents a set of uncommitted writes leaves once laid over a table
Overlay(table, writes) ==
  writes \cup {d \in table : \A p \in writes : ~SameDoc(p, d)}

\* what worker w reads: committed rows, its own writes on top
View(w) == Overlay(db, pending[w])

Put(writes, d) == Overlay(writes, {d})

SetMax(S) == IF S = {} THEN 0 ELSE CHOOSE m \in S : \A x \in S : x <= m

\* naming series: the next unused name of a doctype
NewName(doctype) ==
  1 + SetMax({d.name : d \in {x \in db \cup UNION {pending[w] : w \in Workers} :
                                 x.doctype = doctype}})

SalesOrders_AnyStatus(w, oid) ==
  {d \in View(w) : d.doctype = "Sales Order" /\ d.shopify_order_id = oid}

SalesInvoices_Submitted(w, oid) ==
  {d \in View(w) : d.doctype = "Sales Invoice" /\ d.shopify_order_id = oid
                   /\ d.docstatus = 1}

\* frappe.db.get_value(doctype, filters): the rows a filter matches
SalesOrders(w, oid) ==
  {d \in View(w) : d.doctype = "Sales Order" /\ d.docstatus < 2
                   /\ d.shopify_order_id = oid}

SalesInvoices(w, oid) ==
  {d \in View(w) : d.doctype = "Sales Invoice" /\ d.shopify_order_id = oid}

DeliveryNotes(w, fid) ==
  {d \in View(w) : d.doctype = "Delivery Note" /\ d.shopify_fulfillment_id = fid}

Submitted(w, doctype, oid) ==
  {d \in View(w) : d.doctype = doctype /\ d.docstatus = 1
                   /\ d.shopify_order_id = oid}

\* ---- payloads -----------------------------------------------------------
OrderIds == {1}

FinancialStatuses == {"paid", "refunded", "pending"}

LineItem(variant, product, id, title) ==
  [variant_id |-> variant, product_id |-> product, id |-> id, title |-> title]

\* by variant id, by product id (created on demand), by name, by nothing
LineItemLists ==
  { <<LineItem(1, 0, 0, "V")>>, <<LineItem(0, 2, 0, "P")>>,
    <<LineItem(0, 0, 3, "I")>>, <<LineItem(0, 0, 0, "A")>>,
    <<LineItem(0, 0, 0, "Z")>>, <<LineItem(1, 0, 0, "V"), LineItem(0, 0, 0, "Z")>> }

\* the orders of the storefront: what every delivery about one repeats
ShopOrders ==
  [id : OrderIds, line_items : LineItemLists, customer : {[id |-> 5]}]

Fulfillments(oid, n) == [i \in 1..n |-> [id |-> i, order_id |-> oid]]

\* the payload of a delivery about the storefront's order
Payload(fs, n) ==
  [id |-> shop.id, financial_status |-> fs,
   fulfillments |-> Fulfillments(shop.id, n),
   line_items |-> shop.line_items, customer |-> shop.customer]

Deliveries == [fs : FinancialStatuses, n : 0..MaxFulfillments]

\* the payloads that may be delivered
Orders == {Payload(p.fs, p.n) : p \in inbox}

\* ---- master data --------------------------------------------------------
Item(code, variant, product, name) ==
  [item_code |-> code, shopify_variant_id |-> variant,
   shopify_product_id |-> product, item_name |-> name]

ProductId(item) == IF item.product_id # 0 THEN item.product_id ELSE item.id

FirstCode(S) == IF S = {} THEN 0 ELSE SetMax({i.item_code : i \in S})

get_item_code_AnyItem(its, shopify_item) ==
  LET byVariant == {i \in its : shopify_item.variant_id # 0
                       /\ i.shopify_variant_id = shopify_item.variant_id}
  IN  IF FirstCode(byVariant) # 0 THEN FirstCode(byVariant) ELSE FirstCode(its)

get_item_code(its, shopify_item) ==
  LET byVariant == {i \in its : shopify_item.variant_id # 0
                       /\ i.shopify_variant_id = shopify_item.variant_id}
      byProduct == {i \in its : ProductId(shopify_item) # 0
                       /\ i.shopify_product_id = ProductId(shopify_item)}
      byName    == {i \in its : i.item_name = shopify_item.title}
  IN  IF FirstCode(byVariant) # 0 THEN FirstCode(byVariant)
      ELSE IF FirstCode(byProduct) # 0 THEN FirstCode(byProduct)
      ELSE FirstCode(byName)

get_order_items(its, order_items) ==
  [k \in 1..Len(order_items) |->
     [item_code |-> get_item_code(its, order_items[k]),
      item_name |-> order_items[k].title]]

\* make_item: a new Item keyed by the line item's product id
make_item(its, shopify_item) ==
  its \cup {Item(1 + FirstCode(its), shopify_item.variant_id,
                 ProductId(shopify_item), shopify_item.title)}

RECURSIVE validate_item_from(_, _, _)
validate_item_from(its, line_items, k) ==
  IF k > Len(line_items) THEN its
  ELSE LET item == line_items[k]
           missing == ProductId(item) # 0
                      /\ ~\E i \in its : i.shopify_product_id = ProductId(item)
       IN validate_item_from(IF missing THEN make_item(its, item) ELSE its,
                             line_items, k + 1)

validate_item(its, order) == validate_item_from(its, order.line_items, 1)

validate_customer(cs, order) ==
  IF order.customer.id # 0 /\ order.customer.id \notin cs
  THEN cs \cup {order.customer.id} ELSE cs

\* Document.save(): an item row without an item code is refused
SaveRefused(rows) == \E k \in 1..Len(rows) : rows[k].item_code = 0

\* ---- the log of a request -----------------------------------------------
NoCall == [op |-> "none", order |-> [id |-> 0], db0 |-> {}, errs |-> {},
           log |-> <<>>, ran |-> {}, att |-> <<>>]

NewCall(op, order) == [op |-> op, order |-> order, db0 |-> db, errs |-> {},
                       log |-> <<>>, ran |-> {}, att |-> <<>>]

\* what is kept of the call before: its handler, whether it logged no Error,
\* and whether its payload was the one delivered now
Summary(c, order) == [op |-> c.op, ok |-> c.errs = {}, same |-> c.order = order]

\* make_shopify_log(status, rollback): drop or keep the open transaction,
\* write the status on the request's log, commit
LogDb(w, writes, rollback) == IF rollback THEN db ELSE Overlay(db, writes)

Logged(c, status, stage) ==
  [c EXCEPT !.log = Append(@, status),
            !.errs = IF status = "Error" THEN @ \cup {stage} ELSE @]

Entered(c, stage) == [c EXCEPT !.ran = @ \cup {stage}]

\* ---- initial state ------------------------------------------------------
NoTax == [pc |-> "off", taxes |-> <<>>, shipping_lines |-> <<>>,
          result |-> <<>>, raised |-> FALSE]

Settings == [sync_sales_invoice : {0, 1}, sync_delivery_note : {0, 1}]

InitData ==
  /\ shop \in ShopOrders
  /\ overlap = FALSE
  /\ items = {Item(1, 1, 1, "A")}
  /\ customers = {}
  /\ db = {}
  /\ pending = [w \in Workers |-> {}]
  /\ pc = [w \in Workers |-> "idle"]
  /\ call = [w \in Workers |-> NoCall]
  /\ prev = [w \in Workers |-> Summary(NoCall, NoCall.order)]
  /\ so = [w \in Workers |-> NoDoc]
  /\ si = [w \in Workers |-> 0]
  /\ idx = [w \in Workers |-> 1]

\* one worker takes the deliveries one after the other
Init ==
  /\ InitData
  /\ settings \in Settings
  /\ tax = NoTax
  /\ inbox = Deliveries
  /\ budget = [w \in Workers |-> IF w = 1 THEN MaxCalls ELSE 0]

\* one worker, and one payload delivered again and again
InitReplay ==
  /\ InitData
  /\ settings \in Settings
  /\ tax = NoTax
  /\ inbox \in {{p} : p \in Deliveries}
  /\ budget = [w \in Workers |-> IF w = 1 THEN MaxReplays ELSE 0]

\* two workers take deliveries of one payload at the same time, both sync
\* toggles on, the line item one whose Item is made on demand
InitConc ==
  /\ InitData
  /\ shop.line_items = <<LineItem(0, 2, 0, "P")>>
  /\ settings = [sync_sales_invoice |-> 1, sync_delivery_note |-> 1]
  /\ tax = NoTax
  /\ inbox \in {{p} : p \in Deliveries}
  /\ budget = [w \in Workers |-> MaxConcCalls]

\* ---- sync_sales_order ---------------------------------------------------
Begin(w, op, order, first) ==
  /\ pc[w] = "idle"
  /\ budget[w] > 0
  /\ budget' = [budget EXCEPT ![w] = @ - 1]
  /\ prev' = [prev EXCEPT ![w] = Summary(call[w], order)]
  /\ call' = [call EXCEPT ![w] = NewCall(op, order)]
  /\ so' = [so EXCEPT ![w] = NoDoc]
  /\ si' = [si EXCEPT ![w] = 0]
  /\ idx' = [idx EXCEPT ![w] = 1]
  /\ pc' = [pc EXCEPT ![w] = first]
  /\ overlap' = (overlap \/ \E v \in Workers \ {w} : pc[v] # "idle")
  /\ UNCHANGED <<env, items, customers, db, pending>>

sync_sales_order(w) ==
  \E order \in Orders : Begin(w, "sync_sales_order", order, "create_shopify_order")

RunsInvoiceAndDelivery_Always(order_doc) == TRUE

\* lines 42-44: the stages run once create_shopify_order returned
RunsInvoiceAndDelivery(order_doc) == order_doc # NoDoc

AfterOrderStage(order_doc) ==
  IF RunsInvoiceAndDelivery(order_doc) THEN "create_shopify_invoice" ELSE "return"

\* lines 47-58: reuse the open Sales Order of this order id
create_shopify_order(w) ==
  /\ pc[w] = "create_shopify_order"
  /\ call' = [call EXCEPT ![w] = Entered(@, "order")]
  /\ IF SalesOrders(w, call[w].order.id) # {}
     THEN \E d \in SalesOrders(w, call[w].order.id) :
            /\ so' = [so EXCEPT ![w] = d]
            /\ pc' = [pc EXCEPT ![w] = AfterOrderStage(d)]
     ELSE /\ pc' = [pc EXCEPT ![w] = "validate"]
          /\ UNCHANGED so
  /\ UNCHANGED <<env, overlap, items, customers, db, pending, prev, si, idx, budget>>

\* lines 64-65 and 42: the order stage raised
OrderStageFails(w, writes) ==
  /\ db' = LogDb(w, writes, FALSE)
  /\ pending' = [pending EXCEPT ![w] = {}]
  /\ call' = [call EXCEPT ![w] = Logged(@, "Error", "order")]
  /\ so' = [so EXCEPT ![w] = NoDoc]
  /\ pc' = [pc EXCEPT ![w] = AfterOrderStage(NoDoc)]

\* lines 61-62: validate_customer, validate_item
validate(w) ==
  /\ pc[w] = "validate"
  /\ \/ /\ customers' = validate_customer(customers, call[w].order)
        /\ items' = validate_item(items, call[w].order)
        /\ pc' = [pc EXCEPT ![w] = "create_sales_order"]
        /\ UNCHANGED <<db, pending, call, so>>
     \/ /\ customers' \in {customers, validate_customer(customers, call[w].order)}
        /\ UNCHANGED items
        /\ OrderStageFails(w, pending[w])
  /\ UNCHANGED <<env, overlap, prev, si, idx, budget>>

\* lines 63 and 66-68: create_sales_order returned a document
OrderStageDone(w, d, writes) ==
  /\ db' = Overlay(db, writes)
  /\ pending' = [pending EXCEPT ![w] = {}]
  /\ call' = [call EXCEPT ![w] = Logged(@, "Success", "order")]
  /\ so' = [so EXCEPT ![w] = d]
  /\ pc' = [pc EXCEPT ![w] = AfterOrderStage(d)]

\* lines 172-175, 202-206: the second look for an open Sales Order
create_sales_order(w) ==
  /\ pc[w] = "create_sales_order"
  /\ IF SalesOrders(w, call[w].order.id) # {}
     THEN \E d \in SalesOrders(w, call[w].order.id) : OrderStageDone(w, d, pending[w])
     ELSE /\ pc' = [pc EXCEPT ![w] = "so_insert"]
          /\ UNCHANGED <<db, pending, call, so>>
  /\ UNCHANGED <<env, overlap, items, customers, prev, si, idx, budget>>

\* lines 176-201, 205-206: build, save, submit, commit
so_insert(w) ==
  /\ pc[w] = "so_insert"
  /\ LET rows  == get_order_items(items, call[w].order.line_items)
         name  == NewName("Sales Order")
         draft == Doc("Sales Order", name, 0, call[w].order.id, 0, 0, FALSE, 0)
         doc   == [draft EXCEPT !.docstatus = 1]
     IN \/ /\ ~SaveRefused(rows)
           /\ OrderStageDone(w, doc, Put(pending[w], doc))
        \/ OrderStageFails(w, pending[w])
        \/ /\ ~SaveRefused(rows)
           /\ OrderStageFails(w, Put(pending[w], draft))
  /\ UNCHANGED <<env, overlap, items, customers, prev, si, idx, budget>>

\* ---- create_shopify_invoice ---------------------------------------------
NeedsInvoice_Unchecked(w, order, order_doc) ==
  /\ order_doc.docstatus = 1
  /\ order_doc.per_billed = 0
  /\ settings.sync_sales_invoice # 0

\* lines 210-211: the condition under which an invoice is made
NeedsInvoice(w, order, order_doc) ==
  /\ SalesInvoices(w, order.id) = {}
  /\ order_doc.docstatus = 1
  /\ order_doc.per_billed = 0
  /\ settings.sync_sales_invoice # 0

\* line 80: a return is made for a refunded order when create_sales_invoice
\* returned the invoice it made
WantsReturn_AnyStatus(order, invoice) == invoice # 0

WantsReturn_NoInvoice(order, invoice) == order.financial_status = "refunded"

WantsReturn(order, invoice) == invoice # 0 /\ order.financial_status = "refunded"

\* lines 80-88: what follows create_sales_invoice's return of `invoice`
AfterInvoice(order, invoice) ==
  IF WantsReturn(order, invoice) THEN "make_sales_return"
  ELSE "create_shopify_delivery"

\* lines 71-80, 209-211
create_shopify_invoice(w) ==
  /\ pc[w] = "create_shopify_invoice"
  /\ call' = [call EXCEPT ![w] = Entered(@, "invoice")]
  /\ pc' = [pc EXCEPT ![w] =
       IF call[w].order.financial_status \notin {"paid", "refunded"}
       THEN "create_shopify_delivery"
       ELSE IF NeedsInvoice(w, call[w].order, so[w]) THEN "si_insert"
       ELSE AfterInvoice(call[w].order, 0)]
  /\ UNCHANGED <<env, overlap, items, customers, db, pending, prev, so, si, idx, budget>>

\* update of the Sales Order's billed percentage when its invoice is
\* submitted or cancelled
Billed(writes, order_name, pct) ==
  Overlay(writes,
          {[d EXCEPT !.per_billed = pct] :
             d \in {x \in Overlay(db, writes) :
                      x.doctype = "Sales Order" /\ x.name = order_name}})

\* the rollback argument of the handler's make_shopify_log: lines 65, 86 and
\* 101 leave it out, lines 118, 132 and 147 pass True
LogRollback(op) == op # "sync_sales_order"

\* lines 85-86, 117-118: the invoice stage raised and the failure is logged
InvoiceStageFails(w, writes) ==
  /\ db' = LogDb(w, writes, LogRollback(call[w].op))
  /\ pending' = [pending EXCEPT ![w] = {}]
  /\ call' = [call EXCEPT ![w] = Logged(@, "Error", "invoice")]
  /\ si' = [si EXCEPT ![w] = 0]
  /\ pc' = [pc EXCEPT ![w] =
       IF call[w].op = "sync_sales_order" THEN "create_shopify_delivery"
       ELSE "return"]

\* lines 213-225: make, insert and submit the invoice, pay it, commit
si_insert(w) ==
  /\ pc[w] = "si_insert"
  /\ LET name  == NewName("Sales Invoice")
         draft == Doc("Sales Invoice", name, 0, call[w].order.id, 0, so[w].name, FALSE, 0)
         doc   == [draft EXCEPT !.docstatus = 1]
         pe    == Doc("Payment Entry", NewName("Payment Entry"), 1, 0, 0, name, FALSE, 0)
         billed == Billed(Put(pending[w], doc), so[w].name, 100)
     IN \/ /\ db' = Overlay(db, Put(billed, pe))
           /\ pending' = [pending EXCEPT ![w] = {}]
           /\ si' = [si EXCEPT ![w] = name]
           /\ IF call[w].op = "sync_sales_order"
              THEN /\ pc' = [pc EXCEPT ![w] = AfterInvoice(call[w].order, name)]
                   /\ UNCHANGED call
              ELSE /\ pc' = [pc EXCEPT ![w] = "return"]
                   /\ call' = [call EXCEPT ![w] = Logged(@, "Success", "invoice")]
        \/ InvoiceStageFails(w, pending[w])
        \/ InvoiceStageFails(w, Put(pending[w], draft))
        \/ InvoiceStageFails(w, billed)
        \/ InvoiceStageFails(w, Put(billed, [pe EXCEPT !.docstatus = 0]))
  /\ UNCHANGED <<env, overlap, items, customers, prev, so, idx, budget>>

\* make_sales_return(si): the return invoice against invoice `name`
make_sales_return(name, invoice) ==
  Doc("Sales Invoice", name, 0, 0, 0, invoice, TRUE, 0)

\* lines 82-84: the return is saved and submitted, not committed
return_invoice(w) ==
  /\ pc[w] = "make_sales_return"
  /\ LET draft == make_sales_return(NewName("Sales Invoice"), si[w])
         doc   == [draft EXCEPT !.docstatus = 1]
     IN \/ /\ pending' = [pending EXCEPT ![w] = Put(@, doc)]
           /\ pc' = [pc EXCEPT ![w] = "create_shopify_delivery"]
           /\ UNCHANGED <<db, call, si>>
        \/ InvoiceStageFails(w, pending[w])
        \/ InvoiceStageFails(w, Put(pending[w], draft))
  /\ UNCHANGED <<env, overlap, items, customers, prev, so, idx, budget>>

\* ---- create_shopify_delivery --------------------------------------------
\* lines 91-96, 244-247
create_shopify_delivery(w) ==
  /\ pc[w] = "create_shopify_delivery"
  /\ call' = [call EXCEPT ![w] = Entered(@, "delivery")]
  /\ idx' = [idx EXCEPT ![w] = 1]
  /\ pc' = [pc EXCEPT ![w] =
       IF call[w].order.fulfillments = <<>> THEN "return"
       ELSE IF settings.sync_delivery_note = 0 THEN "return"
       ELSE "create_delivery_note"]
  /\ UNCHANGED <<env, overlap, items, customers, db, pending, prev, so, si, budget>>

NeedsDeliveryNote_Unchecked(w, fulfillment, order_doc) == order_doc.docstatus = 1

\* lines 249-250: the condition under which a fulfillment gets a note
NeedsDeliveryNote(w, fulfillment, order_doc) ==
  /\ DeliveryNotes(w, fulfillment.id) = {}
  /\ order_doc.docstatus = 1

\* line 130: prepare_delivery_note logs Success once the notes are made
DeliveryDone(c) ==
  IF c.op = "prepare_delivery_note" THEN Logged(c, "Success", "delivery") ELSE c

\* lines 248-250, 266: the loop over the fulfillments
create_delivery_note(w) ==
  /\ pc[w] = "create_delivery_note"
  /\ IF idx[w] > Len(call[w].order.fulfillments)
     THEN /\ pc' = [pc EXCEPT ![w] = "return"]
          /\ call' = [call EXCEPT ![w] = DeliveryDone(@)]
          /\ UNCHANGED idx
     ELSE IF NeedsDeliveryNote(w, call[w].order.fulfillments[idx[w]], so[w])
     THEN pc' = [pc EXCEPT ![w] = "dn_insert"] /\ UNCHANGED <<idx, call>>
     ELSE idx' = [idx EXCEPT ![w] = @ + 1] /\ UNCHANGED <<pc, call>>
  /\ UNCHANGED <<env, overlap, items, customers, db, pending, prev, so, si, budget>>

\* lines 100-102, 131-132: the delivery stage raised and the failure is logged
DeliveryStageFails(w, writes) ==
  /\ db' = LogDb(w, writes, LogRollback(call[w].op))
  /\ pending' = [pending EXCEPT ![w] = {}]
  /\ call' = [call EXCEPT ![w] = Logged(@, "Error", "delivery")]
  /\ pc' = [pc EXCEPT ![w] = "return"]
  /\ UNCHANGED idx

\* lines 252-264: make, save and submit the note, commit
dn_insert(w) ==
  /\ pc[w] = "dn_insert"
  /\ LET f     == call[w].order.fulfillments[idx[w]]
         draft == Doc("Delivery Note", NewName("Delivery Note"), 0, f.order_id,
                      f.id, so[w].name, FALSE, 0)
         doc   == [draft EXCEPT !.docstatus = 1]
     IN \/ /\ db' = Overlay(db, Put(pending[w], doc))
           /\ pending' = [pending EXCEPT ![w] = {}]
           /\ idx' = [idx EXCEPT ![w] = @ + 1]
           /\ pc' = [pc EXCEPT ![w] = "create_delivery_note"]
           /\ UNCHANGED call
        \/ DeliveryStageFails(w, pending[w])
        \/ DeliveryStageFails(w, Put(pending[w], draft))
  /\ UNCHANGED <<env, overlap, items, customers, prev, so, si, budget>>

\* the job ends: the request's transaction is committed
return(w) ==
  /\ pc[w] = "return"
  /\ db' = Overlay(db, pending[w])
  /\ pending' = [pending EXCEPT ![w] = {}]
  /\ pc' = [pc EXCEPT ![w] = "idle"]
  /\ UNCHANGED <<env, overlap, items, customers, call, prev, so, si, idx, budget>>

\* ---- prepare_sales_invoice, prepare_delivery_note ------------------------
\* lines 150-154: any Sales Order of the order id, cancelled ones too
get_sales_order(w, oid) ==
  {d \in View(w) : d.doctype = "Sales Order" /\ d.shopify_order_id = oid}

\* only order['id'] is read: one payload stands for every delivery
prepare_sales_invoice(w) ==
  Begin(w, "prepare_sales_invoice", Payload("paid", 0), "prepare_sales_invoice")

\* lines 112-116
prepare_invoice(w) ==
  /\ pc[w] = "prepare_sales_invoice"
  /\ IF get_sales_order(w, call[w].order.id) = {}
     THEN /\ pc' = [pc EXCEPT ![w] = "return"]
          /\ call' = [call EXCEPT ![w] = Entered(@, "invoice")]
          /\ UNCHANGED so
     ELSE \E d \in get_sales_order(w, call[w].order.id) :
            /\ so' = [so EXCEPT ![w] = d]
            /\ IF NeedsInvoice(w, call[w].order, d)
               THEN /\ pc' = [pc EXCEPT ![w] = "si_insert"]
                    /\ call' = [call EXCEPT ![w] = Entered(@, "invoice")]
               ELSE /\ pc' = [pc EXCEPT ![w] = "return"]
                    /\ call' = [call EXCEPT ![w] =
                         Logged(Entered(@, "invoice"), "Success", "invoice")]
  /\ UNCHANGED <<env, overlap, items, customers, db, pending, prev, si, idx, budget>>

prepare_delivery_note(w) ==
  \E order \in {o \in Orders : o.financial_status = "paid"} :
     Begin(w, "prepare_delivery_note", order, "prepare_delivery_note")

\* lines 126-130, 244-245
prepare_delivery(w) ==
  /\ pc[w] = "prepare_delivery_note"
  /\ IF get_sales_order(w, call[w].order.id) = {}
     THEN /\ pc' = [pc EXCEPT ![w] = "return"]
          /\ call' = [call EXCEPT ![w] =
               Logged(Entered(@, "delivery"), "Success", "delivery")]
          /\ UNCHANGED so
     ELSE \E d \in get_sales_order(w, call[w].order.id) :
            /\ so' = [so EXCEPT ![w] = d]
            /\ IF settings.sync_delivery_note = 0
               THEN /\ pc' = [pc EXCEPT ![w] = "return"]
                    /\ call' = [call EXCEPT ![w] =
                         Logged(Entered(@, "delivery"), "Success", "delivery")]
               ELSE /\ pc' = [pc EXCEPT ![w] = "create_delivery_note"]
                    /\ call' = [call EXCEPT ![w] = Entered(@, "delivery")]
  /\ UNCHANGED <<env, overlap, items, customers, db, pending, prev, si, idx, budget>>

\* ---- cancel_shopify_order -----------------------------------------------
doctypes == <<"Delivery Note", "Sales Invoice", "Sales Order">>

\* only order['id'] is read: one payload stands for every cancellation
cancel_shopify_order(w) ==
  Begin(w, "cancel_shopify_order", Payload("pending", 0), "cancel")

\* Document.cancel(): the document, and what its cancellation updates
Cancelled(writes, d) ==
  LET off == Put(writes, [d EXCEPT !.docstatus = 2])
  IN IF d.doctype = "Sales Invoice" /\ ~d.is_return
     THEN Billed(off, d.against, 0) ELSE off

\* lines 140-147: one turn of the loop over the doctypes
cancel(w) ==
  /\ pc[w] = "cancel"
  /\ IF idx[w] > Len(doctypes)
     THEN /\ pc' = [pc EXCEPT ![w] = "return"]
          /\ UNCHANGED <<db, pending, call, idx>>
     ELSE LET found == Submitted(w, doctypes[idx[w]], call[w].order.id)
          IN /\ idx' = [idx EXCEPT ![w] = @ + 1]
             /\ UNCHANGED pc
             /\ IF found = {}
                THEN UNCHANGED <<db, pending, call>>
                ELSE \E d \in found :
                       \/ /\ pending' = [pending EXCEPT ![w] = Cancelled(@, d)]
                          /\ call' = [call EXCEPT ![w].att = Append(@, d)]
                          /\ UNCHANGED db
                       \/ /\ db' = LogDb(w, pending[w], LogRollback(call[w].op))
                          /\ pending' = [pending EXCEPT ![w] = {}]
                          /\ call' = [call EXCEPT ![w] =
                               [Logged(@, "Error", d.doctype) EXCEPT
                                  !.att = Append(@, d)]]
  /\ UNCHANGED <<env, overlap, items, customers, prev, so, si, budget>>

\* ---- update_taxes_with_shipping_lines ------------------------------------
\* the Shopify Tax Account table of the settings
TaxAccounts == [t \in {"Shipping", "GST", "PST"} |-> "Account " \o t]

\* lines 342-351: no account for a title is an error (frappe.throw)
HasTaxAccount(t) == t.title \in DOMAIN TaxAccounts

get_tax_account_head(t) == TaxAccounts[t.title]

\* line 329: [shipping_charge] or shipping_charge.get('tax_lines')
ShippingTaxLines(shipping_charge) ==
  IF <<shipping_charge>> # <<>> THEN <<shipping_charge>>
  ELSE shipping_charge.tax_lines

\* lines 331-337
ChargeLine(t) ==
  [charge_type |-> "Actual", account_head |-> get_tax_account_head(t),
   description |-> t.title, tax_amount |-> t.price, cost_center |-> "Main"]

ChargeLines(lines) == [k \in 1..Len(lines) |-> ChargeLine(lines[k])]

RECURSIVE update_taxes_with_shipping_lines(_, _)
update_taxes_with_shipping_lines(taxes, shipping_lines) ==
  IF shipping_lines = <<>> THEN taxes
  ELSE update_taxes_with_shipping_lines(
         taxes \o ChargeLines(ShippingTaxLines(Head(shipping_lines))),
         Tail(shipping_lines))

\* the call raises when a line it reads has no tax account
TaxRaises(shipping_lines) ==
  \E k \in 1..Len(shipping_lines) :
     \E j \in 1..Len(ShippingTaxLines(shipping_lines[k])) :
        ~HasTaxAccount(ShippingTaxLines(shipping_lines[k])[j])

SeqsUpTo(S, n) == UNION {[1..k -> S] : k \in 0..n}

NestedTaxLines == [title : {"GST", "PST"}, price : {1}, rate : {0}]

ShippingCharges ==
  [title : {"Shipping", "Pickup"}, price : {10},
   tax_lines : SeqsUpTo(NestedTaxLines, MaxTaxLines)]

OrderTaxes ==
  { <<>>, <<[charge_type |-> "On Net Total", account_head |-> "Account GST",
            description |-> "GST - 5%", tax_amount |-> 0, cost_center |-> "Main"]>> }

InitTax ==
  /\ InitData
  /\ settings = [sync_sales_invoice |-> 1, sync_delivery_note |-> 1]
  /\ inbox = Deliveries
  /\ budget = [w \in Workers |-> 0]
  /\ tax \in [pc : {"call"}, taxes : OrderTaxes,
              shipping_lines : SeqsUpTo(ShippingCharges, MaxShipping),
              result : {<<>>}, raised : {FALSE}]

UpdateTaxes ==
  /\ tax.pc = "call"
  /\ tax' = IF TaxRaises(tax.shipping_lines)
            THEN [tax EXCEPT !.pc = "done", !.raised = TRUE]
            ELSE [tax EXCEPT !.pc = "done",
                    !.result = update_taxes_with_shipping_lines(
                                 tax.taxes, tax.shipping_lines)]
  /\ UNCHANGED <<settings, shop, inbox, overlap, items, customers, db, pending,
                 pc, call, prev, so, si, idx, budget>>

NextTax == UpdateTaxes

SpecTax == InitTax /\ [][NextTax]_vars

Next == \E w \in Workers :
  \/ sync_sales_order(w)
  \/ create_shopify_order(w)
  \/ validate(w)
  \/ create_sales_order(w)
  \/ so_insert(w)
  \/ create_shopify_invoice(w)
  \/ si_insert(w)
  \/ return_invoice(w)
  \/ create_shopify_delivery(w)
  \/ create_delivery_note(w)
  \/ dn_insert(w)
  \/ return(w)
  \/ cancel_shopify_order(w)
  \/ cancel(w)
  \/ prepare_sales_invoice(w)
  \/ prepare_invoice(w)
  \/ prepare_delivery_note(w)
  \/ prepare_delivery(w)

Spec == Init /\ [][Next]_vars

SpecReplay == InitReplay /\ [][Next]_vars

SpecConc == InitConc /\ [][Next]_vars

\* ---- what the properties speak of ---------------------------------------
\* the handler of worker w has returned
Returned(w) == pc[w] = "idle" /\ call[w].op # "none"

Syncing(w) == call[w].op = "sync_sales_order"

\* the documents committed since the call of worker w began
Created(w) == {d \in db : \A x \in call[w].db0 : ~SameDoc(x, d)}

Kind(S, doctype) == {d \in S : d.doctype = doctype /\ ~d.is_return}

Returns(S) == {d \in S : d.doctype = "Sales Invoice" /\ d.is_return}

OpenOrders(S, oid) ==
  {d \in Kind(S, "Sales Order") : d.docstatus < 2 /\ d.shopify_order_id = oid}

Invoices(S, oid) == {d \in Kind(S, "Sales Invoice") : d.shopify_order_id = oid}

Notes(S, fid) == {d \in Kind(S, "Delivery Note") : d.shopify_fulfillment_id = fid}

FulfillmentIds(order) ==
  {order.fulfillments[k].id : k \in 1..Len(order.fulfillments)}

Errors(c) == {k \in 1..Len(c.log) : c.log[k] = "Error"}

\* at most one open Sales Order and one Sales Invoice per order id, one
\* Delivery Note per fulfillment id
Unique ==
  /\ \A oid \in OrderIds : Cardinality(OpenOrders(db, oid)) <= 1
  /\ \A oid \in OrderIds : Cardinality(Invoices(db, oid)) <= 1
  /\ \A fid \in 1..MaxFulfillments : Cardinality(Notes(db, fid)) <= 1

\* ---- C1 -----------------------------------------------------------------
\* C1 as stated: after sync_sales_order ran twice in sequence with one payload,
\* the second call created nothing, and there is exactly one Sales Order, at
\* most one Sales Invoice and exactly one Delivery Note per fulfillment id.
C1_Original ==
  \A w \in Workers :
    (Returned(w) /\ Syncing(w) /\ prev[w].op = "sync_sales_order" /\ prev[w].same)
    => /\ Created(w) = {}
       /\ Cardinality(OpenOrders(db, call[w].order.id)) = 1
       /\ Cardinality(Invoices(db, call[w].order.id)) <= 1
       /\ \A fid \in FulfillmentIds(call[w].order) :
            Cardinality(Notes(db, fid)) = 1

\* C1 amended: when the first of two sync_sales_order calls in sequence with
\* one payload logged no Error, the second call changes no document; there is
\* exactly one open Sales Order, at most one Sales Invoice and at most one
\* Delivery Note per fulfillment id, and exactly one Delivery Note per
\* fulfillment id where delivery-note sync is on and the Sales Order is
\* submitted.
C1_Idempotent ==
  \A w \in Workers :
    (Returned(w) /\ Syncing(w) /\ prev[w].op = "sync_sales_order" /\ prev[w].same
       /\ prev[w].ok)
    => /\ db = call[w].db0
       /\ call[w].errs = {}
       /\ Cardinality(OpenOrders(db, call[w].order.id)) = 1
       /\ Cardinality(Invoices(db, call[w].order.id)) <= 1
       /\ \A fid \in FulfillmentIds(call[w].order) :
            /\ Cardinality(Notes(db, fid)) <= 1
            /\ (settings.sync_delivery_note # 0 /\ so[w].docstatus = 1)
                 => Cardinality(Notes(db, fid)) = 1

C1_Witness ==
  \E w \in Workers :
    /\ Returned(w) /\ Syncing(w) /\ prev[w].op = "sync_sales_order"
    /\ prev[w].same /\ prev[w].ok
    /\ Len(call[w].order.fulfillments) = MaxFulfillments
    /\ Cardinality(Invoices(db, call[w].order.id)) = 1
    /\ \A fid \in FulfillmentIds(call[w].order) : Cardinality(Notes(db, fid)) = 1

\* ---- C2 -----------------------------------------------------------------
\* C2 as stated: under any interleaving of concurrent sync_sales_order calls
\* for one order, at most one open Sales Order and one Sales Invoice per order
\* id and one Delivery Note per fulfillment id.
C2_Original == (\A w \in Workers : call[w].op \in {"none", "sync_sales_order"}) => Unique

\* C2 amended: the uniqueness holds in every state reached by calls that did
\* not overlap in time (each handler returned before the next began).
C2_Sequential == ~overlap => Unique

C2_Witness ==
  /\ ~overlap
  /\ \A w \in Workers : Returned(w) /\ Syncing(w)
  /\ \A oid \in OrderIds : Cardinality(OpenOrders(db, oid)) = 1
                           /\ Cardinality(Invoices(db, oid)) = 1
  /\ \A fid \in 1..MaxFulfillments : Cardinality(Notes(db, fid)) = 1

\* ---- C3 -----------------------------------------------------------------
HadAllThree(w) ==
  \A k \in 1..Len(doctypes) :
    \E d \in call[w].db0 : d.doctype = doctypes[k] /\ d.docstatus = 1
                           /\ d.shopify_order_id = call[w].order.id

IsCancelled(d) == \E x \in db : SameDoc(x, d) /\ x.docstatus = 2

\* C3 as stated: cancel_shopify_order on an order with a submitted Delivery
\* Note, Sales Invoice and Sales Order attempts them in that order and ends
\* with all three cancelled; when cancelling the Sales Invoice raises, the
\* Delivery Note is still cancelled on return, the Sales Order is still
\* attempted, and one Error is logged for the failed document.
C3_Original ==
  \A w \in Workers :
    (Returned(w) /\ call[w].op = "cancel_shopify_order" /\ HadAllThree(w))
    => /\ [k \in 1..Len(call[w].att) |-> call[w].att[k].doctype] = doctypes
       /\ call[w].errs = {} => \A k \in 1..3 : IsCancelled(call[w].att[k])
       /\ call[w].errs = {"Sales Invoice"}
            => /\ IsCancelled(call[w].att[1])
               /\ Cardinality(Errors(call[w])) = 1

\* ---- C4 -----------------------------------------------------------------
\* C4: in sync_sales_order every stage that raised is logged as one Error and
\* the call goes on to return; the Sales Order the order stage returned stays
\* submitted whatever a later stage does; when the order stage raised, the
\* invoice and delivery stages are not run.
C4_StageIsolation ==
  \A w \in Workers :
    Syncing(w)
    => /\ Cardinality(Errors(call[w])) = Cardinality(call[w].errs)
       /\ "order" \in call[w].errs
            => call[w].ran = {"order"} /\ so[w] = NoDoc /\ pc[w] \in {"return", "idle"}
       /\ so[w].docstatus = 1
            => \E d \in db : SameDoc(d, so[w]) /\ d.docstatus = 1
       /\ \A d \in call[w].db0 : \E x \in db : SameDoc(x, d) /\ x.docstatus >= d.docstatus

C4_Witness ==
  \E w \in Workers :
    /\ Returned(w) /\ Syncing(w)
    /\ call[w].errs = {"invoice"}
    /\ so[w] \in Created(w) \/ [so[w] EXCEPT !.per_billed = 100] \in Created(w)
    /\ Kind(Created(w), "Delivery Note") # {}

\* ---- C5 -----------------------------------------------------------------
HasReturn(S, invoice) == \E r \in Returns(S) : r.against = invoice.name /\ r.docstatus = 1

\* C5 as stated: a sync_sales_order of a refunded order makes a submitted
\* Sales Invoice for the order and a submitted return invoice against it.
C5_Original ==
  \A w \in Workers :
    (Returned(w) /\ Syncing(w) /\ call[w].order.financial_status = "refunded"
       /\ call[w].errs = {})
    => \E d \in Invoices(db, call[w].order.id) : d.docstatus = 1 /\ HasReturn(db, d)

\* C5 amended: when invoice sync is on, the Sales Order is submitted and
\* unbilled and no Sales Invoice of the order exists yet, a sync_sales_order of
\* a refunded order that logs no Error makes a submitted Sales Invoice and then
\* a submitted return invoice against it; a return invoice, committed or not,
\* is always against a committed, submitted Sales Invoice of the order.
C5_ReturnAfterInvoice ==
  /\ \A w \in Workers :
       \A r \in Returns(View(w)) :
         \E d \in Kind(db, "Sales Invoice") :
            d.name = r.against /\ d.docstatus >= 1 /\ d.shopify_order_id # 0
  /\ \A w \in Workers :
       (Returned(w) /\ Syncing(w) /\ call[w].order.financial_status = "refunded"
          /\ call[w].errs = {} /\ settings.sync_sales_invoice # 0
          /\ so[w].docstatus = 1 /\ so[w].per_billed = 0
          /\ Invoices(call[w].db0, call[w].order.id) = {})
       => \E d \in Invoices(Created(w), call[w].order.id) :
             /\ d.docstatus = 1
             /\ HasReturn(Created(w), d)
             /\ Cardinality(Returns(Created(w))) = 1

C5_Witness ==
  \E w \in Workers :
    /\ Returned(w) /\ Syncing(w) /\ call[w].order.financial_status = "refunded"
    /\ call[w].errs = {}
    /\ \E d \in Invoices(Created(w), call[w].order.id) : HasReturn(Created(w), d)

\* ---- C6 -----------------------------------------------------------------
Fresh(w) == \A d \in call[w].db0 : d.shopify_order_id # call[w].order.id

PaidUnfulfilled(w) ==
  /\ Returned(w) /\ Syncing(w) /\ Fresh(w)
  /\ call[w].order.financial_status = "paid"
  /\ call[w].order.fulfillments = <<>>

OneEach(S) ==
  /\ Cardinality(Kind(S, "Sales Order")) = 1
  /\ Cardinality(Kind(S, "Sales Invoice")) = 1
  /\ Cardinality(Kind(S, "Payment Entry")) = 1
  /\ Kind(S, "Delivery Note") = {}
  /\ Returns(S) = {}
  /\ \A d \in S : d.docstatus = 1

\* C6 as stated: for a paid order without fulfillments and with no documents
\* yet, sync_sales_order makes exactly one Sales Order, one Sales Invoice and
\* one Payment Entry, no Delivery Note and no return invoice.
C6_Original ==
  \A w \in Workers : (PaidUnfulfilled(w) /\ call[w].errs = {}) => OneEach(Created(w))

\* C6 amended: the same when invoice sync is on and no stage logs an Error;
\* in every case the call makes no Delivery Note and no return invoice.
C6_PaidUnfulfilled ==
  \A w \in Workers :
    PaidUnfulfilled(w)
    => /\ Kind(Created(w), "Delivery Note") = {}
       /\ Returns(Created(w)) = {}
       /\ (call[w].errs = {} /\ settings.sync_sales_invoice # 0)
            => OneEach(Created(w))

C6_Witness ==
  \E w \in Workers :
    PaidUnfulfilled(w) /\ call[w].errs = {} /\ OneEach(Created(w))

\* ---- C7 -----------------------------------------------------------------
\* a line item that no Item matches by variant id, product id or name
NoItemFor(shopify_item) ==
  /\ ~\E i \in items : shopify_item.variant_id # 0
                       /\ i.shopify_variant_id = shopify_item.variant_id
  /\ ~\E i \in items : ProductId(shopify_item) # 0
                       /\ i.shopify_product_id = ProductId(shopify_item)
  /\ ~\E i \in items : i.item_name = shopify_item.title

NestedOrSelf(shipping_charge) ==
  IF shipping_charge.tax_lines = <<>> THEN <<shipping_charge>>
  ELSE shipping_charge.tax_lines

RECURSIVE NestedChargeLines(_)
NestedChargeLines(shipping_lines) ==
  IF shipping_lines = <<>> THEN <<>>
  ELSE ChargeLines(NestedOrSelf(Head(shipping_lines)))
         \o NestedChargeLines(Tail(shipping_lines))

NestedRaises(shipping_lines) ==
  \E k \in 1..Len(shipping_lines) :
     \E j \in 1..Len(NestedOrSelf(shipping_lines[k])) :
        ~HasTaxAccount(NestedOrSelf(shipping_lines[k])[j])

\* C8 as stated: update_taxes_with_shipping_lines appends, per shipping
\* charge, one Actual charge line per nested tax line (title and amount of the
\* nested line), and one line from the charge itself only when it has none.
C8_Original ==
  (tax.pc = "done" /\ ~NestedRaises(tax.shipping_lines))
  => /\ ~tax.raised
     /\ tax.result = tax.taxes \o NestedChargeLines(tax.shipping_lines)

\* ---- C9 -----------------------------------------------------------------
\* the state a full cancellation leaves: cancelled Sales Orders only, a
\* cancelled Sales Invoice, cancelled Delivery Notes
AllCancelled(S, order) ==
  /\ OpenOrders(S, order.id) = {}
  /\ \E d \in Kind(S, "Sales Order") : d.shopify_order_id = order.id /\ d.docstatus = 2
  /\ \E d \in Invoices(S, order.id) : d.docstatus = 2
  /\ \E d \in Kind(S, "Delivery Note") : d.docstatus = 2

\* C9: a sync_sales_order after the Sales Order, Sales Invoice and Delivery
\* Note of a paid, fulfilled order were cancelled makes a new Sales Order
\* (unless the order stage logs an Error), no Sales Invoice, and no Delivery
\* Note for a fulfillment id that has one.
C9_ResyncAfterCancel ==
  \A w \in Workers :
    (Returned(w) /\ Syncing(w) /\ call[w].order.financial_status = "paid"
       /\ call[w].order.fulfillments # <<>> /\ AllCancelled(call[w].db0, call[w].order))
    => /\ Kind(Created(w), "Sales Invoice") = {}
       /\ Kind(Created(w), "Payment Entry") = {}
       /\ \A d \in Kind(Created(w), "Delivery Note") :
            Notes(call[w].db0, d.shopify_fulfillment_id) = {}
       /\ "order" \notin call[w].errs
            => /\ Cardinality(Kind(Created(w), "Sales Order")) = 1
               /\ so[w] \in Created(w) /\ so[w].docstatus = 1

C9_Witness ==
  \E w \in Workers :
    /\ Returned(w) /\ Syncing(w) /\ call[w].order.financial_status = "paid"
    /\ call[w].order.fulfillments # <<>> /\ AllCancelled(call[w].db0, call[w].order)
    /\ prev[w].op = "cancel_shopify_order"
    /\ Cardinality(Created(w)) = 1 /\ so[w] \in Created(w)
    /\ \A fid \in FulfillmentIds(call[w].order) : Notes(call[w].db0, fid) # {}

\* ---- C10 ----------------------------------------------------------------
\* C10: a sync_sales_order of a refunded order whose Sales Invoice already
\* exists gets no invoice from create_sales_invoice and makes no return
\* invoice; and a Sales Invoice, once there, stays, so no later sync makes one.
C10_NoLateReturn ==
  \A w \in Workers :
    /\ (Syncing(w) /\ call[w].order.financial_status = "refunded"
          /\ Invoices(call[w].db0, call[w].order.id) # {})
       => /\ si[w] = 0
          /\ Returns(View(w)) \subseteq call[w].db0
          /\ Kind(Created(w), "Sales Invoice") = {}
    /\ \A d \in Invoices(call[w].db0, call[w].order.id) :
          \E x \in db : SameDoc(x, d)

C10_Witness ==
  \E w \in Workers :
    /\ Returned(w) /\ Syncing(w) /\ call[w].order.financial_status = "refunded"
    /\ prev[w].op = "sync_sales_order" /\ ~prev[w].same /\ prev[w].ok
    /\ \E d \in Invoices(call[w].db0, call[w].order.id) : d.docstatus = 1
    /\ so[w].docstatus = 1
    /\ Returns(db) = {}
====
